---- MODULE Spec2Model ----
(***************************************************************************)
(* Model of overviewer_core/observer.py: the Observer base class and the   *)
(* LoggingObserver, ProgressBarObserver and JSObserver sinks.              *)
(*                                                                         *)
(* One observer object is modelled.  Its attributes, the status file and   *)
(* the last line put on the log / terminal live in the record st.  Every   *)
(* method is an operator from (st, arguments, time) to [st, ret] where ret *)
(* is the returned value or the name of the exception that ended the call; *)
(* st then holds the effects made before the exception.  Time is counted   *)
(* in milliseconds (time.time() * 1000).                                   *)
(***************************************************************************)
EXTENDS Integers, Sequences, FiniteSets, TLC

VARIABLES
    st,       \* the observer object, its status file and its last output line
    now,      \* the clock, in ms
    ticks,    \* how often the clock has advanced
    ret,      \* what the last call returned, or the exception it raised
    lastOp,   \* the last call: [op, arg]
    called,   \* which of start and finish have been called so far
    inRange,  \* every update / add so far came after start and stayed in 0..max
    trace     \* the calls made so far, while they follow one of the Scripts

vars == <<st, now, ticks, ret, lastOp, called, inRange, trace>>

(* ---------------------------- bounds ---------------------------------- *)
\* value of the clock when the observer is constructed (ms)
Epoch == 10000
\* number of times the clock advances in one run
MaxTicks == 1
\* amounts by which the clock advances between two calls (ms)
TickSteps == {100, 6000}
\* a pause of more than a minute (ms); it is the only pause of its run
LongStep == 61000
\* max_value arguments of start
MaxValues == {0, 100, 1000}
\* current_value arguments of update
Values == {0, 10, 15, 20, 24, 26, 50, 100, 440, 500}
\* amount arguments of add
Amounts == {0, 10}
\* add is called only while the sum stays at or below this value
MaxSum == 26
\* minrefresh arguments of JSObserver, already multiplied by 1000 (ms)
MinRefreshMs == {500, 5000}

(* ----------------------- Python values -------------------------------- *)
\* the attribute holds None
NoneVal == -7777
\* the attribute was never assigned: reading it raises AttributeError
Missing == -8888

IsNum(x) == x # NoneVal /\ x # Missing
IsExc(r) == r \in {"AttributeError", "TypeError", "ZeroDivisionError"}
PyBool(b) == IF b THEN "True" ELSE "False"
Maximum(a, b) == IF a >= b THEN a ELSE b
\* int(a / b) as done by the %d conversion: truncation towards zero, b > 0
Trunc(a, b) == IF a >= 0 THEN a \div b ELSE -((-a) \div b)

Classes == {"Observer", "LoggingObserver", "ProgressBarObserver", "JSObserver"}

NoFile == [msg |-> "nofile", a |-> 0, b |-> 0, c |-> 0, update |-> 0, isfalse |-> FALSE]
EmptyFile == [msg |-> "", a |-> 0, b |-> 0, c |-> 0, update |-> 0, isfalse |-> FALSE]
NoLine == [msg |-> "", a |-> 0, b |-> 0, c |-> 0]

\* the fields every object record has; attributes a class does not assign
\* are Missing.  emits counts the progress reports of the current call (log
\* line, bar repaint, status-file write of update), lines the logging.info
\* calls of the current call, during is what the status file holds between
\* the open(..., "w") and the write of the current call (NoFile: not opened)
Blank(c) == [cls |-> c,
             _current_value |-> Missing, _max_value |-> Missing,
             start_time |-> Missing, end_time |-> Missing,
             _end_time |-> Missing,
             last_update |-> Missing, last_update_time |-> Missing,
             minrefresh |-> Missing,
             currval |-> Missing, maxval |-> Missing,
             logfile |-> NoFile, line |-> NoLine, emits |-> 0,
             lines |-> 0, during |-> NoFile]

Res(s, r) == [st |-> s, ret |-> r]

(* ------------------------- constructors ------------------------------- *)
Observer___init__ ==
    [Blank("Observer") EXCEPT !._current_value = NoneVal, !._max_value = NoneVal,
                              !.start_time = NoneVal, !.end_time = NoneVal]

\* super(Observer, self).__init__() is object.__init__: the four attributes
\* of Observer.__init__ are not created
LoggingObserver___init__ ==
    [Blank("LoggingObserver") EXCEPT !.last_update = -101]

UPDATE_INTERVAL == 25

\* the bar collaborator's constructor: the tracker fields start unset
ProgressBar___init__ ==
    [Blank("ProgressBarObserver") EXCEPT !.currval = NoneVal, !.maxval = NoneVal,
                                         !.start_time = NoneVal, !.end_time = NoneVal]

ProgressBarObserver___init__ ==
    [ProgressBar___init__ EXCEPT !.last_update = 0 - (UPDATE_INTERVAL + 1)]

JSObserver___init__(minrefresh_ms) ==
    [Blank("JSObserver") EXCEPT
        !.last_update = -11,
        !.last_update_time = -1000,
        !._current_value = -1,
        !.minrefresh = minrefresh_ms,
        !.logfile = [msg |-> "Render in progress", a |-> 0, b |-> 0, c |-> 0,
                     update |-> minrefresh_ms, isfalse |-> FALSE]]

(* --------------------------- accessors -------------------------------- *)
\* the value held, Missing meaning that the read raises AttributeError
get_current_value(s) ==
    IF s.cls = "ProgressBarObserver" THEN s.currval ELSE s._current_value

get_max_value(s) ==
    IF s.cls = "ProgressBarObserver" THEN s.maxval ELSE s._max_value

_set_max_value(s, max_value) ==
    IF s.cls = "ProgressBarObserver" THEN [s EXCEPT !.maxval = max_value]
    ELSE [s EXCEPT !._max_value = max_value]

is_started(s) ==
    IF s.start_time = Missing THEN "AttributeError"
    ELSE PyBool(s.start_time # NoneVal)

is_finished(s) ==
    IF s.end_time = Missing THEN "AttributeError"
    ELSE PyBool(s.end_time # NoneVal)

\* self.is_started() and not self.is_finished(), evaluated left to right
is_running(s) ==
    IF is_started(s) = "AttributeError" THEN "AttributeError"
    ELSE IF is_started(s) = "False" THEN "False"
    ELSE IF is_finished(s) = "AttributeError" THEN "AttributeError"
    ELSE PyBool(is_finished(s) = "False")

\* the float returned is the exact quotient num / den
Pct(e, n, d) == [exc |-> e, num |-> n, den |-> d]

\* get_percentage without the branch for max_value 0
get_percentage_nozero(s) ==
    LET mx == get_max_value(s)
        cv == get_current_value(s)
    IN IF mx = Missing \/ cv = Missing THEN Pct("AttributeError", 0, 1)
       ELSE IF cv = NoneVal \/ mx = NoneVal THEN Pct("TypeError", 0, 1)
       ELSE IF mx = 0 THEN Pct("ZeroDivisionError", 0, 1)
       ELSE Pct("none", cv * 100, mx)

get_percentage(s) ==
    LET mx == get_max_value(s)
        cv == get_current_value(s)
    IN IF mx = Missing THEN Pct("AttributeError", 0, 1)
       ELSE IF mx = 0 THEN Pct("none", 100, 1)
       ELSE IF cv = Missing THEN Pct("AttributeError", 0, 1)
       ELSE IF cv = NoneVal \/ mx = NoneVal THEN Pct("TypeError", 0, 1)
       ELSE Pct("none", cv * 100, mx)

(* ----------------------- Observer (base class) ------------------------ *)
Observer_update(s, current_value, t) ==
    Res([s EXCEPT !._current_value = current_value], "False")

Observer_finish(s, t) ==
    Res([s EXCEPT !.end_time = t], "None")

(* -------------------------- LoggingObserver --------------------------- *)
\* the staircase with >= in place of >
\* the staircase with the first band's threshold taken from the second
LoggingObserver__need_update_coarse(s) ==
    LET cur_val == get_current_value(s)
    IN IF cur_val < 500 THEN cur_val - s.last_update > 50
       ELSE cur_val - s.last_update > 100

LoggingObserver__need_update_ge(s) ==
    LET cur_val == get_current_value(s)
    IN IF cur_val < 100 THEN cur_val - s.last_update >= 10
       ELSE IF cur_val < 500 THEN cur_val - s.last_update >= 50
       ELSE cur_val - s.last_update >= 100

LoggingObserver__need_update(s) ==
    LET cur_val == get_current_value(s)
    IN IF cur_val < 100 THEN cur_val - s.last_update > 10
       ELSE IF cur_val < 500 THEN cur_val - s.last_update > 50
       ELSE cur_val - s.last_update > 100

\* "Rendered %d of %d.  %d%% complete"
RenderedLine(cv, mx, p) ==
    [msg |-> "Rendered", a |-> cv, b |-> mx, c |-> Trunc(p.num, p.den)]

LoggingObserver_update(s, current_value, t) ==
    LET s1 == Observer_update(s, current_value, t).st
        p  == get_percentage(s1)
    IN IF LoggingObserver__need_update(s1)
       THEN IF get_max_value(s1) = Missing THEN Res(s1, "AttributeError")
            ELSE IF p.exc # "none" THEN Res(s1, p.exc)
            ELSE Res([s1 EXCEPT
                        !.line = RenderedLine(get_current_value(s1), get_max_value(s1), p),
                        !.lines = @ + 1,
                        !.emits = @ + 1,
                        !.last_update = current_value], "True")
       ELSE Res(s1, "False")

\* a final line that reports the current value in place of the maximum
LoggingObserver_finish_current(s, t) ==
    IF get_max_value(s) = Missing THEN Res(s, "AttributeError")
    ELSE Observer_finish(
            [s EXCEPT !.line = RenderedLine(get_current_value(s), get_max_value(s),
                                            get_percentage(s)),
                      !.lines = @ + 1],
            t)

LoggingObserver_finish(s, t) ==
    IF get_max_value(s) = Missing THEN Res(s, "AttributeError")
    ELSE Observer_finish(
            [s EXCEPT !.line = RenderedLine(get_max_value(s), get_max_value(s), Pct("none", 100, 1)),
                      !.lines = @ + 1],
            t)

(* ------------------------ ProgressBarObserver ------------------------- *)
\* the interval test with >= in place of >
ProgressBarObserver__need_update_ge(s) ==
    get_current_value(s) - s.last_update >= UPDATE_INTERVAL

ProgressBarObserver__need_update(s) ==
    get_current_value(s) - s.last_update > UPDATE_INTERVAL

\* the bar collaborator's update: records the value and repaints when the
\* sink's throttle allows it; answers whether it repainted
ProgressBar_update(s, value, t) ==
    LET s1 == [s EXCEPT !.currval = value]
    IN IF ProgressBarObserver__need_update(s1)
       THEN Res([s1 EXCEPT !.line = [msg |-> "bar", a |-> value, b |-> s1.maxval, c |-> 0],
                           !.emits = @ + 1], "True")
       ELSE Res(s1, "False")

\* no return statement: the caller gets None
ProgressBarObserver_update(s, current_value, t) ==
    LET r == ProgressBar_update(s, current_value, t)
    IN IF r.ret = "True"
       THEN Res([r.st EXCEPT !.last_update = get_current_value(r.st)], "None")
       ELSE Res(r.st, "None")

\* the bar collaborator's start sequence: records the start time and makes
\* the initial update(0) through the sink's own update
ProgressBar_start(s, t) ==
    Res(ProgressBarObserver_update([s EXCEPT !.start_time = t], 0, t).st, "self")

ProgressBarObserver_start(s, max_value, t) ==
    LET s1 == _set_max_value(s, max_value)
        s2 == [s1 EXCEPT !.line = [msg |-> "Rendering total tiles", a |-> max_value,
                                   b |-> 0, c |-> 0],
                         !.lines = @ + 1]
    IN Res(ProgressBar_start(s2, t).st, "None")

\* the bar collaborator's finish sequence: closes out the tracker
ProgressBar_finish(s, t) ==
    Res([s EXCEPT !.end_time = t], "None")

ProgressBarObserver_finish(s, t) ==
    LET s1 == [s EXCEPT !._end_time = t]
        s2 == ProgressBar_finish(s1, t).st
    IN Res([s2 EXCEPT !.line = [msg |-> "Rendering complete!", a |-> 0, b |-> 0, c |-> 0],
                      !.lines = @ + 1],
           "None")

(* ----------------------------- JSObserver ----------------------------- *)
\* time.time() - last_update_time and minrefresh // 1000 are seconds; the
\* clock of the model is in milliseconds
\* the time gate comparing milliseconds with minrefresh // 1000
JSObserver__need_update_units(s, t) ==
    LET cur_val == get_current_value(s)
    IN IF (t - s.last_update_time) <= s.minrefresh \div 1000 THEN FALSE
       ELSE IF cur_val < 100 THEN cur_val - s.last_update > 10
       ELSE IF cur_val < 500 THEN cur_val - s.last_update > 50
       ELSE cur_val - s.last_update > 100

JSObserver__need_update(s, t) ==
    LET cur_val == get_current_value(s)
    IN IF (t - s.last_update_time) <= 1000 * (s.minrefresh \div 1000) THEN FALSE
       ELSE IF cur_val < 100 THEN cur_val - s.last_update > 10
       ELSE IF cur_val < 500 THEN cur_val - s.last_update > 50
       ELSE cur_val - s.last_update > 100

\* the suggestion without the floor of minrefresh
JSObserver_refresh_nofloor(s, t) ==
    (1500 * (t - s.last_update_time)) \div 1000

\* max(1500 * seconds, minrefresh) as written by %d
JSObserver_refresh(s, t) ==
    Maximum((1500 * (t - s.last_update_time)) \div 1000, s.minrefresh)

JSObserver_update(s, current_value, t) ==
    LET s1 == [s EXCEPT !._current_value = current_value]
        p  == get_percentage(s1)
        s2 == [s1 EXCEPT !.logfile = EmptyFile, !.during = EmptyFile]
    IN IF JSObserver__need_update(s1, t)
       THEN IF get_max_value(s1) = Missing THEN Res(s2, "AttributeError")
            ELSE IF p.exc # "none" THEN Res(s2, p.exc)
            ELSE Res([s2 EXCEPT
                        !.logfile = [msg |-> "Rendered", a |-> get_current_value(s1),
                                     b |-> get_max_value(s1), c |-> Trunc(p.num, p.den),
                                     update |-> JSObserver_refresh(s1, t),
                                     isfalse |-> FALSE],
                        !.emits = @ + 1,
                        !.last_update_time = t,
                        !.last_update = current_value], "True")
       ELSE Res(s1, "False")

\* no update(0), no return statement
JSObserver_start(s, max_value, t) ==
    LET s1 == [s EXCEPT !.during = EmptyFile,
                        !.logfile = [msg |-> "Rendering tiles", a |-> max_value, b |-> 0,
                                     c |-> 0, update |-> s.minrefresh, isfalse |-> FALSE]]
        s2 == [s1 EXCEPT !.start_time = t]
    IN Res(_set_max_value(s2, max_value), "None")

\* finish writing the configured refresh instead of the string "false"
JSObserver_finish_refresh(s, t) ==
    LET s1 == [s EXCEPT !.end_time = t]
        duration == s1.end_time - s1.start_time
        mins == duration \div 60000
    IN IF s1.start_time = Missing THEN Res(s1, "AttributeError")
       ELSE Res([s1 EXCEPT !.during = EmptyFile,
                           !.logfile = [msg |-> "Render completed", a |-> mins,
                                        b |-> (duration - 1000 * mins) \div 1000, c |-> 0,
                                        update |-> s.minrefresh, isfalse |-> FALSE]], "None")

\* duration // 60 and duration - duration // 60, in seconds, written by %d
JSObserver_finish(s, t) ==
    LET s1 == [s EXCEPT !.end_time = t]
        duration == s1.end_time - s1.start_time
        mins == duration \div 60000
    IN IF s1.start_time = Missing THEN Res(s1, "AttributeError")
       ELSE Res([s1 EXCEPT !.during = EmptyFile,
                           !.logfile = [msg |-> "Render completed", a |-> mins,
                                        b |-> (duration - 1000 * mins) \div 1000, c |-> 0,
                                        update |-> 0, isfalse |-> TRUE]], "None")

(* ------------------------- method dispatch ---------------------------- *)
update(s, current_value, t) ==
    CASE s.cls = "Observer" -> Observer_update(s, current_value, t)
      [] s.cls = "LoggingObserver" -> LoggingObserver_update(s, current_value, t)
      [] s.cls = "ProgressBarObserver" -> ProgressBarObserver_update(s, current_value, t)
      [] s.cls = "JSObserver" -> JSObserver_update(s, current_value, t)

\* Observer.start, inherited by LoggingObserver
Observer_start(s, max_value, t) ==
    LET s1 == _set_max_value(s, max_value)
        s2 == [s1 EXCEPT !.start_time = t]
        r  == update(s2, 0, t)
    IN IF IsExc(r.ret) THEN r ELSE Res(r.st, "self")

start(s, max_value, t) ==
    CASE s.cls \in {"Observer", "LoggingObserver"} -> Observer_start(s, max_value, t)
      [] s.cls = "ProgressBarObserver" -> ProgressBarObserver_start(s, max_value, t)
      [] s.cls = "JSObserver" -> JSObserver_start(s, max_value, t)

finish(s, t) ==
    CASE s.cls = "Observer" -> Observer_finish(s, t)
      [] s.cls = "LoggingObserver" -> LoggingObserver_finish(s, t)
      [] s.cls = "ProgressBarObserver" -> ProgressBarObserver_finish(s, t)
      [] s.cls = "JSObserver" -> JSObserver_finish(s, t)

\* add without the test for a zero amount
Observer_add_nozero(s, amount, t) ==
    IF get_current_value(s) = Missing THEN Res(s, "AttributeError")
    ELSE IF get_current_value(s) = NoneVal THEN Res(s, "TypeError")
    ELSE Res(update(s, get_current_value(s) + amount, t).st,
             IF IsExc(update(s, get_current_value(s) + amount, t).ret)
             THEN update(s, get_current_value(s) + amount, t).ret ELSE "None")

\* Observer.add (inherited by the log and bar sinks) and JSObserver.add
\* have the same body
Observer_add(s, amount, t) ==
    IF amount # 0
    THEN IF get_current_value(s) = Missing THEN Res(s, "AttributeError")
         ELSE IF get_current_value(s) = NoneVal THEN Res(s, "TypeError")
         ELSE Res(update(s, get_current_value(s) + amount, t).st,
                  IF IsExc(update(s, get_current_value(s) + amount, t).ret)
                  THEN update(s, get_current_value(s) + amount, t).ret ELSE "None")
    ELSE Res(s, "None")

JSObserver_add(s, amount, t) == Observer_add(s, amount, t)

add(s, amount, t) ==
    IF s.cls = "JSObserver" THEN JSObserver_add(s, amount, t) ELSE Observer_add(s, amount, t)

(* ------------------------- the calling program ------------------------ *)
Call(o, a) == [op |-> o, arg |-> a]
Entry(o, a, e) == [op |-> o, arg |-> a, e |-> e]

\* call sequences of the documented scenarios (the argument of start is
\* not part of the match)
Scripts == { <<Call("start", 0), Call("update", 15), Call("update", 20), Call("update", 26)>>,
             <<Call("start", 0), Call("update", 10), Call("update", 24), Call("update", 26),
               Call("update", 50)>> }

Off == <<Entry("off", 0, FALSE)>>

Calls(tr) == [i \in 1..Len(tr) |-> Call(tr[i].op, IF tr[i].op = "start" THEN 0 ELSE tr[i].arg)]
Emitted(tr) == [i \in 1..Len(tr) |-> tr[i].e]

IsPrefix(p, q) == Len(p) <= Len(q) /\ \A i \in 1..Len(p) : p[i] = q[i]

Record(tr, o, a, e) ==
    IF tr # Off /\ \E sc \in Scripts : IsPrefix(Calls(Append(tr, Entry(o, a, e))), sc)
    THEN Append(tr, Entry(o, a, e))
    ELSE Off

Fresh(s) == [s EXCEPT !.emits = 0, !.lines = 0, !.during = NoFile]

Init ==
    /\ st \in {Observer___init__, LoggingObserver___init__, ProgressBarObserver___init__}
              \cup {JSObserver___init__(m) : m \in MinRefreshMs}
    /\ now = Epoch
    /\ ticks = 0
    /\ ret = "None"
    /\ lastOp = Call("__init__", 0)
    /\ called = [start |-> FALSE, finish |-> FALSE]
    /\ inRange = TRUE
    /\ trace = <<>>

Tick(dt) ==
    /\ ticks < MaxTicks
    /\ now' = now + dt
    /\ ticks' = ticks + 1
    /\ UNCHANGED <<st, ret, lastOp, called, inRange, trace>>

LongTick ==
    /\ ticks = 0
    /\ now' = now + LongStep
    /\ ticks' = MaxTicks
    /\ UNCHANGED <<st, ret, lastOp, called, inRange, trace>>

Start(max_value) ==
    LET r == start(Fresh(st), max_value, now)
    IN /\ st' = r.st
       /\ ret' = r.ret
       /\ lastOp' = Call("start", max_value)
       /\ called' = [called EXCEPT !.start = TRUE]
       /\ trace' = Record(trace, "start", max_value, r.st.emits > 0)
       /\ UNCHANGED <<now, ticks, inRange>>

Update(current_value) ==
    LET r == update(Fresh(st), current_value, now)
    IN /\ st' = r.st
       /\ ret' = r.ret
       /\ lastOp' = Call("update", current_value)
       /\ inRange' = (inRange /\ called.start /\ current_value >= 0
                        /\ current_value <= get_max_value(st))
       /\ trace' = Record(trace, "update", current_value, r.st.emits > 0)
       /\ UNCHANGED <<now, ticks, called>>

Add(amount) ==
    LET r == add(Fresh(st), amount, now)
    IN /\ (amount # 0 /\ IsNum(get_current_value(st))) => get_current_value(st) + amount <= MaxSum
       /\ st' = r.st
       /\ ret' = r.ret
       /\ lastOp' = Call("add", amount)
       /\ inRange' = (inRange /\ (amount # 0 =>
                        /\ called.start /\ amount >= 0
                        /\ IsNum(get_current_value(st))
                        /\ get_current_value(st) + amount <= get_max_value(st)))
       /\ trace' = Record(trace, "add", amount, r.st.emits > 0)
       /\ UNCHANGED <<now, ticks, called>>

Finish ==
    LET r == finish(Fresh(st), now)
    IN /\ st' = r.st
       /\ ret' = r.ret
       /\ lastOp' = Call("finish", 0)
       /\ called' = [called EXCEPT !.finish = TRUE]
       /\ trace' = Record(trace, "finish", 0, r.st.emits > 0)
       /\ UNCHANGED <<now, ticks, inRange>>

Next ==
    \/ \E dt \in TickSteps : Tick(dt)
    \/ LongTick
    \/ \E m \in MaxValues : Start(m)
    \/ \E v \in Values : Update(v)
    \/ \E d \in Amounts : Add(d)
    \/ Finish

Spec == Init /\ [][Next]_vars

(* ====================================================================== *)
(* Properties                                                             *)
(* ====================================================================== *)

\* the step is a call of update(v) / add(d) / start(m): calls leave the
\* clock alone, Tick leaves lastOp alone
UpdateStep(v) == now' = now /\ lastOp' = Call("update", v)
AddStep(d) == now' = now /\ lastOp' = Call("add", d)
StartStep(m) == now' = now /\ lastOp' = Call("start", m)

\* the staircase threshold of the specification, by band of the value
Staircase(v) == IF v < 100 THEN 10 ELSE IF v < 500 THEN 50 ELSE 100

\* a returned value counts as true
Truthy(r) == r \in {"True", "self"}

(* C1: for Observer, LoggingObserver and JSObserver, in every state,      *)
(* is_started() returns true iff start has been called, is_finished()     *)
(* returns true iff finish has been called, and is_running() returns      *)
(* is_started() and not is_finished(); none of the three raises.          *)
C1_Lifecycle ==
    st.cls \in {"Observer", "LoggingObserver", "JSObserver"} =>
        /\ is_started(st) = PyBool(called.start)
        /\ is_finished(st) = PyBool(called.finish)
        /\ is_running(st) = PyBool(called.start /\ ~called.finish)

C2_Rule ==
    st.cls = "LoggingObserver" =>
        /\ \A v \in Values : (called.start /\ UpdateStep(v)) =>
              /\ (st'.emits = 1) <=> (v - st.last_update > Staircase(v))
              /\ st'.emits \in {0, 1}
              /\ st'.emits = 1 => (st'.last_update = v /\ st'.line.a = v /\ ret' = "True")
              /\ st'.emits = 0 => (st'.last_update = st.last_update /\ st'.line = st.line)
        /\ \A m \in MaxValues : (st.last_update = -101 /\ StartStep(m)) =>
              (st'.emits = 1 /\ st'.last_update = 0 /\ st'.line.a = 0)

C2_Scenario ==
    (st.cls = "LoggingObserver" /\ trace # Off /\ Len(trace) >= 1) =>
        /\ Emitted(trace)[1]
        /\ Calls(trace) = <<Call("start", 0), Call("update", 15), Call("update", 20),
                            Call("update", 26)>>
              => Emitted(trace) = <<TRUE, TRUE, FALSE, TRUE>>

(* C2: LoggingObserver.update(v), once start has set the maximum, emits a *)
(* line and sets last_update = v iff v - last_update > T(v), T being 10   *)
(* below 100, 50 below 500 and 100 from 500 on; the update(0) made by     *)
(* start on a sink that has not emitted yet (last_update = -101) emits;   *)
(* start(1000), update(15), update(20), update(26) emits on 0, 15 and 26  *)
(* and not on 20.                                                         *)
C2_LogThrottle == [][C2_Rule]_vars /\ []C2_Scenario

C2_Witness ==
    /\ st.cls = "LoggingObserver"
    /\ trace = <<Entry("start", 1000, TRUE), Entry("update", 15, TRUE),
                 Entry("update", 20, FALSE), Entry("update", 26, TRUE)>>
    /\ st.last_update = 26
    /\ lastOp = Call("update", 26)

C3_Rule ==
    st.cls = "ProgressBarObserver" =>
        \A v \in Values : UpdateStep(v) =>
            /\ (st'.emits = 1) <=> (v - st.last_update > 25)
            /\ st'.emits \in {0, 1}
            /\ st'.emits = 1 => (st'.last_update = v /\ st'.line.a = v)
            /\ st'.emits = 0 => (st'.last_update = st.last_update /\ st'.line = st.line)

C3_Sentinel ==
    (st.cls = "ProgressBarObserver" /\ lastOp.op = "__init__") => st.last_update = -26

C3_Script ==
    <<Call("start", 0), Call("update", 10), Call("update", 24), Call("update", 26),
      Call("update", 50)>>

(* C3 as stated: ProgressBarObserver emits and records last_update on an  *)
(* update iff the value exceeds the last emitted value by more than 25    *)
(* (initially -26); the updates 0, 10, 24, 26, 50 emit on 0, 26 and 50.   *)
C3_Original ==
    /\ [][C3_Rule]_vars
    /\ []C3_Sentinel
    /\ []((st.cls = "ProgressBarObserver" /\ Calls(trace) = C3_Script)
            => Emitted(trace) = <<TRUE, FALSE, FALSE, TRUE, TRUE>>)

(* C3 amended: ProgressBarObserver emits and records last_update on an    *)
(* update iff the value exceeds the last emitted value by more than 25    *)
(* (initially -26); the updates 0, 10, 24, 26, 50 emit on 0 and 26 only:  *)
(* 50 - 26 = 24 does not exceed 25.                                       *)
C3_BarThrottle ==
    /\ [][C3_Rule]_vars
    /\ []C3_Sentinel
    /\ []((st.cls = "ProgressBarObserver" /\ Calls(trace) = C3_Script)
            => Emitted(trace) = <<TRUE, FALSE, FALSE, TRUE, FALSE>>)

C3_Witness ==
    /\ st.cls = "ProgressBarObserver"
    /\ Calls(trace) = C3_Script
    /\ st.last_update = 26
    /\ st.currval = 50
    /\ st.emits = 0

(* C4: for every minimum refresh, also one that is not a whole number of  *)
(* seconds, two consecutive status-file writes made by JSObserver.update  *)
(* are more than minrefresh milliseconds apart.                           *)
C4_TimeFloor ==
    [][ st.cls = "JSObserver" =>
          \A v \in Values :
             (UpdateStep(v) /\ st'.emits = 1 /\ st.last_update_time # -1000)
                => now - st.last_update_time > st.minrefresh ]_vars

C5_Rule ==
    (st.cls = "JSObserver" /\ st.minrefresh = 5000 /\ called.start) =>
        \A v \in Values : UpdateStep(v) =>
            /\ st'.emits = 1 =>
                  /\ now - st.last_update_time > 5000
                  /\ v - st.last_update > Staircase(v)
                  /\ now - st.last_update_time # 100
                  /\ st'.logfile.msg = "Rendered" /\ st'.logfile.a = v
            /\ st'.emits = 0 => st'.logfile = st.logfile
            /\ ( /\ st.last_update_time # -1000
                 /\ now - st.last_update_time >= 6000
                 /\ v < 100
                 /\ v - st.last_update > 10 )
                  => (st'.emits = 1 /\ st'.logfile.msg = "Rendered" /\ st'.logfile.a = v)

(* C5: for a started JSObserver with minrefresh 5000 ms an update writes  *)
(* the file only when more than 5000 ms have passed since the last write  *)
(* and the value passes the 10/50/100 staircase; two updates 100 ms apart *)
(* never both write; an update 6 s or more after a write, with a value    *)
(* below 100 that exceeds the written one by more than 10, writes again.  *)
C5_BothGates == [][C5_Rule]_vars

\* the second write of two writes 6 s apart: it suggests 1500 * 6 ms
C5_Witness ==
    /\ st.cls = "JSObserver"
    /\ st.minrefresh = 5000
    /\ lastOp.op = "update"
    /\ st.emits = 1
    /\ st.last_update_time = now
    /\ st.logfile.update = 9000

(* C6: for every class, right after start has returned the current value  *)
(* is 0.                                                                  *)
C6_StartZero ==
    (lastOp.op = "start" /\ ~IsExc(ret)) => get_current_value(st) = 0

(* C7: once start has been called, and while every update / add passed    *)
(* in-range values, 0 <= current value <= max value in every state, also  *)
(* right after start.                                                     *)
C7_InRange ==
    (called.start /\ inRange /\ IsNum(get_max_value(st))) =>
        /\ IsNum(get_current_value(st))
        /\ 0 <= get_current_value(st)
        /\ get_current_value(st) <= get_max_value(st)

(* C8: for every sink, an update made after start returns true exactly    *)
(* when the call emitted (log line, bar repaint, status-file write);      *)
(* Observer.update returns false.                                         *)
C8_ReturnsEmitted ==
    (lastOp.op = "update" /\ called.start /\ ~IsExc(ret)) =>
        /\ Truthy(ret) <=> st.emits > 0
        /\ st.cls = "Observer" => ret = "False"

C9_Rule ==
    /\ AddStep(0) => (st' = Fresh(st) /\ ret' = "None")
    /\ \A d \in Amounts \ {0} :
          (AddStep(d) /\ IsNum(get_current_value(st))) =>
              /\ st' = update(Fresh(st), get_current_value(st) + d, now).st
              /\ IsExc(ret') <=> IsExc(update(Fresh(st), get_current_value(st) + d, now).ret)
              /\ st' = Fresh(st) \/ get_current_value(st') = get_current_value(st) + d

(* C9: in every state of every class add(0) emits nothing and leaves the  *)
(* current value, the last emitted value, the last emit time and the      *)
(* status file as they were; add(d), d # 0, has the effect of             *)
(* update(current value + d).                                             *)
C9_Add == [][C9_Rule]_vars

\* add(10) on a log sink that reported 0 and stands at 10: the sum 20 is
\* reported
C9_Witness ==
    /\ st.cls = "LoggingObserver"
    /\ lastOp = Call("add", 10)
    /\ get_current_value(st) = 20
    /\ st.last_update = 20
    /\ st.emits = 1

(* C10: get_percentage() is current value * 100 / max value for every max *)
(* value > 0 and 0 <= current value <= max value, and exactly 100 for max *)
(* value 0 whatever the current value, without a division fault.          *)
C10_Percentage ==
    LET p  == get_percentage(st)
        cv == get_current_value(st)
        mx == get_max_value(st)
    IN /\ (IsNum(mx) /\ mx > 0 /\ IsNum(cv) /\ 0 <= cv /\ cv <= mx) =>
              (p.exc = "none" /\ p.num * mx = cv * 100 * p.den)
       /\ mx = 0 => (p.exc = "none" /\ p.num = 100 * p.den)

C10_Witness ==
    /\ get_max_value(st) = 0
    /\ get_current_value(st) = 0
    /\ lastOp = Call("start", 0)
    /\ get_percentage(st) = Pct("none", 100, 1)


(* C11: in JSObserver, finish() called after start and any updates,       *)
(* whatever the throttle state and the time since the last write, returns *)
(* with the status file holding the completion document, whose update     *)
(* field is the string "false"; so after start(100), update(100).         *)
C11_FinalDocument ==
    (st.cls = "JSObserver" /\ lastOp.op = "finish" /\ called.start) =>
        /\ ~IsExc(ret)
        /\ st.logfile.msg = "Render completed"
        /\ st.logfile.isfalse

\* start(100), update(100), finish()
C11_Witness ==
    /\ st.cls = "JSObserver"
    /\ lastOp.op = "finish"
    /\ st._max_value = 100
    /\ st._current_value = 100
    /\ st.last_update = 100
    /\ st.logfile.msg = "Render completed"
    /\ st.logfile.isfalse


\* the step is a call that runs update: update(v) itself or add(d)
UpdatingStep == now' = now /\ lastOp'.op \in {"update", "add"}

C12_Rule ==
    (st.cls = "JSObserver" /\ UpdatingStep /\ st'.emits = 1) =>
        /\ st'.logfile.msg = "Rendered"
        /\ st'.logfile.update >= st.minrefresh
        /\ st.last_update_time # -1000 =>
              LET dt == now - st.last_update_time
                  want == Maximum(1500 * dt, 1000 * st.minrefresh)
              IN /\ 1000 * st'.logfile.update <= want
                 /\ want < 1000 * (st'.logfile.update + 1)

(* C12: every document written by an emitting JSObserver.update carries   *)
(* update = max(1500 * interval, minrefresh), written as an integer,      *)
(* interval being the seconds since the previous emitting update; the     *)
(* suggestion of every emission is at least minrefresh.                   *)
C12_Suggestion == [][C12_Rule]_vars

\* a write 100 ms after the previous one: 150 ms is raised to the floor 500
C12_Witness ==
    /\ st.cls = "JSObserver"
    /\ st.minrefresh = 500
    /\ lastOp.op = "update"
    /\ st.emits = 1
    /\ st.last_update_time = Epoch + 100
    /\ st.logfile.msg = "Rendered"
    /\ st.logfile.update = 500


FinishStep == now' = now /\ lastOp' = Call("finish", 0)

C13_Rule ==
    (st.cls = "LoggingObserver" /\ called.start /\ FinishStep) =>
        /\ ~IsExc(ret')
        /\ st'.lines = 1
        /\ st'.line = RenderedLine(get_max_value(st), get_max_value(st), Pct("none", 100, 1))
        /\ is_finished(st') = "True"
        /\ st'.last_update = st.last_update
        /\ get_current_value(st') = get_current_value(st)

(* C13: in LoggingObserver every finish() after start emits exactly one   *)
(* line "maxValue of maxValue, 100%", whatever the current value and      *)
(* last_update are, and the tracker is finished afterwards; a finish()    *)
(* on a finished tracker (second finish) does the same again.             *)
C13_FinalLine == [][C13_Rule]_vars

\* a finish with unreported progress: 20 of 1000 current, 15 last reported
C13_Witness ==
    /\ st.cls = "LoggingObserver"
    /\ lastOp.op = "finish"
    /\ called.start
    /\ st._max_value = 1000
    /\ st._current_value = 20
    /\ st.last_update = 15
    /\ st.lines = 1
    /\ st.line = RenderedLine(1000, 1000, Pct("none", 100, 1))
    /\ is_finished(st) = "True"


(* C14: no operation raises on a malformed call sequence: for the base    *)
(* Observer and every sink, update, get_percentage and finish, called     *)
(* before start or in any other order, complete with some value.          *)
C14_NoFailure ==
    /\ ~IsExc(ret)
    /\ get_percentage(st).exc = "none"


\* what a reader of progress.js can have seen by the end of the last call:
\* the file as the call left it and, when the call opened the file for
\* writing, the file between open(..., "w") and write
Observable(s) == {s.logfile} \cup (IF s.during = NoFile THEN {} ELSE {s.during})

(* C15: a consumer reading the JSObserver status file at any instant      *)
(* after the constructor returned always observes one complete document,  *)
(* never an empty or half-written file.                                   *)
C15_CompleteDocument ==
    st.cls = "JSObserver" => \A f \in Observable(st) : f.msg \notin {"", "nofile"}


(* C16: start(max_value) returns the object it was called on, for the     *)
(* base Observer and for every sink.                                      *)
C16_StartReturnsSelf == lastOp.op = "start" => ret = "self"

(* C18: the final document of JSObserver.finish() reports the elapsed     *)
(* whole seconds d as minutes floor(d / 60) and seconds d - 60 * minutes, *)
(* so 0 <= seconds < 60 and 60 * minutes + seconds = d.                   *)
C18_MinutesSeconds ==
    (st.cls = "JSObserver" /\ lastOp.op = "finish" /\ ~IsExc(ret)) =>
        LET d == (st.end_time - st.start_time) \div 1000
        IN /\ st.logfile.a = d \div 60
           /\ st.logfile.b = d - 60 * (d \div 60)
           /\ 0 <= st.logfile.b /\ st.logfile.b < 60
           /\ 60 * st.logfile.a + st.logfile.b = d

(* C19: the poll interval written by any emitting JSObserver.update, the  *)
(* first one included, is at most max(minrefresh, 1500 * seconds elapsed  *)
(* since the sink was constructed).                                       *)
C19_FirstSuggestion ==
    (st.cls = "JSObserver" /\ lastOp.op \in {"update", "add"} /\ st.emits = 1) =>
        st.logfile.update <= Maximum(st.minrefresh, (1500 * (now - Epoch)) \div 1000)


C17_Rule ==
    (st.cls = "LoggingObserver" /\ called.start /\ st.last_update >= 0
        /\ \E m \in MaxValues : StartStep(m)) =>
        /\ ~IsExc(ret')
        /\ st'.emits = 1
        /\ st'.last_update = 0

(* C17: a second start on a sink raises no error and resets all throttle  *)
(* state: after a second start(max) on a LoggingObserver whose last       *)
(* emitted value is any v >= 0, the internal update(0) emits again and    *)
(* later updates are throttled as after a first start.                    *)
C17_SecondStartResets == [][C17_Rule]_vars

\* the unreported progress of a LoggingObserver is within the staircase
Bounded(s) ==
    /\ 0 <= get_current_value(s) - s.last_update
    /\ get_current_value(s) - s.last_update <= Staircase(get_current_value(s))
    /\ Staircase(get_current_value(s)) <= 100

C20_Rule ==
    st.cls = "LoggingObserver" =>
        /\ (~called.start /\ \E m \in MaxValues : StartStep(m)) =>
              (~IsExc(ret') /\ Bounded(st') /\ get_current_value(st') = st'.last_update)
        /\ (called.start /\ Bounded(st) /\ now' = now /\ lastOp'.op \in {"update", "add"}
              /\ get_current_value(st') >= get_current_value(st)) =>
              /\ ~IsExc(ret')
              /\ Bounded(st')
              /\ st'.emits = 1 => get_current_value(st') = st'.last_update

(* C20: in LoggingObserver, after start and any update/add calls with     *)
(* non-decreasing values, 0 <= currentValue - last_update <=              *)
(* T(currentValue) <= 100 after every call (T the staircase threshold),   *)
(* and the difference is 0 right after an emitting update.  Stated as an  *)
(* induction: the first start establishes the bound and every             *)
(* non-decreasing update or add keeps it.                                 *)
C20_UnreportedBounded == [][C20_Rule]_vars

\* 50 reported, then update(100): 50 is not more than the threshold 50
C20_Witness ==
    /\ st.cls = "LoggingObserver"
    /\ called.start
    /\ lastOp = Call("update", 100)
    /\ ret = "False"
    /\ st.last_update = 50
    /\ st._current_value = 100
    /\ Bounded(st)

====
